---- MODULE Spec2Model ----
(***************************************************************************)
(* Model of class Resampler of pidtool.py: a weighted N-dimensional        *)
(* histogram filled by learn() and read by sample().                       *)
(*                                                                         *)
(* The program is Python 2 / numpy code: map() returns a list (line 24)    *)
(* and a list of index arrays indexes like a tuple (line 39).  Numbers are *)
(* modelled as integers; -inf / +inf are the two sentinels NegInf, PosInf. *)
(* Feature tables are laid out as the callers pass them (lines 146, 176):  *)
(* features[c][r] is column c of row r, so len(features) is the number of  *)
(* columns.                                                                *)
(***************************************************************************)
EXTENDS Integers, Sequences, FiniteSets, TLC

VARIABLES pc, edges, histogram, call, rowsLearned

vars == <<pc, edges, histogram, call, rowsLearned>>

---------------------------------------------------------------------------
(* Bounds of the model and the sets the inputs are drawn from.             *)

\* rows of one well-shaped batch handed to learn or sample
MaxRows == 2
\* rows of a batch whose column count is wrong
MaxBadRows == 1
\* rows learned in total over one behaviour
MaxTotalRows == 2

\* -np.inf and np.inf of line 20
NegInf == -1000
PosInf == 1000
\* np.nan of line 52
NaN == PosInf + 1

\* feature values: below, on and above the edges used in EdgeArgs
Values == {0, 2, 4, 5}
\* per-row weights (sWeights may be negative)
Weights == {-1, 1}

\* constructor arguments: independent edge lists first, dependent last
EdgeArgs ==
    { << <<2, 4>>, <<0, 2, 4>> >>,
      << <<2>>,    <<0, 4>> >>,
      << <<4, 2>>, <<0, 2, 4>> >>,
      << <<2, 4>>, << >> >> }

---------------------------------------------------------------------------
(* Helpers                                                                 *)

RECURSIVE SumSeq(_)
SumSeq(s) == IF s = << >> THEN 0 ELSE Head(s) + SumSeq(Tail(s))

RECURSIVE SumCells(_, _)
SumCells(h, S) ==
    IF S = {} THEN 0
    ELSE LET c == CHOOSE x \in S : TRUE IN h[c] + SumCells(h, S \ {c})

\* np.sum over a whole array
HistSum(h) == SumCells(h, DOMAIN h)

\* number of columns / rows of a column-major table
NCols(features) == Len(features)
NRows(features) == IF Len(features) = 0 THEN 0 ELSE Len(features[1])

Tables(ncols, nrows) == [1..ncols -> [1..nrows -> Values]]

\* weights=None or an explicit sequence, one weight per row
WeightOpts(nrows) ==
    {[given |-> FALSE, w |-> << >>]}
    \cup {[given |-> TRUE, w |-> s] : s \in [1..nrows -> Weights]}

---------------------------------------------------------------------------
(* Resampler.__init__                                                      *)

\* lines 18-22: pad every independent edge list with -inf and +inf
EffectiveEdges(args) ==
    [d \in 1..Len(args) |->
        IF d < Len(args) THEN <<NegInf>> \o args[d] \o <<PosInf>>
        ELSE args[d]]

\* line 24: map(lambda x: len(x) - 1, self.edges)
Shape(e) == [d \in 1..Len(e) |-> Len(e[d]) - 1]

\* np.zeros raises ValueError on a negative dimension
ZerosOk(shape) == \A d \in 1..Len(shape) : shape[d] >= 0

\* the index tuples of an array of this shape (0-based, as in numpy)
Cells(shape) ==
    LET top == CHOOSE m \in {shape[d] : d \in 1..Len(shape)} :
                   \A d \in 1..Len(shape) : shape[d] <= m
    IN  {c \in [1..Len(shape) -> 0..(top - 1)] :
            \A d \in 1..Len(shape) : c[d] < shape[d]}

Zeros(shape) == [c \in Cells(shape) |-> 0]

\* __init__ returns normally iff np.zeros accepts the shape
InitOk(args) == ZerosOk(Shape(EffectiveEdges(args)))

Construct(args) ==
    /\ pc = "new"
    /\ InitOk(args)
    /\ edges' = EffectiveEdges(args)
    /\ histogram' = Zeros(Shape(EffectiveEdges(args)))
    /\ call' = [op |-> "init", args |-> args, outcome |-> "ok"]
    /\ pc' = "returned"
    /\ UNCHANGED rowsLearned

ConstructFails(args) ==
    /\ pc = "new"
    /\ ~InitOk(args)
    /\ call' = [op |-> "init", args |-> args, outcome |-> "ValueError"]
    /\ pc' = "failed"
    /\ UNCHANGED <<edges, histogram, rowsLearned>>

---------------------------------------------------------------------------
(* Resampler.learn                                                         *)

\* variant of the assertion of line 27 that lets surplus columns pass
LearnShapeOkAtLeast(features, e) == NCols(features) >= Len(e)

\* line 27
LearnShapeOk(features, e) == NCols(features) = Len(e)

\* np.histogramdd: "Found bin edge of size <= 0" unless every edge list is
\* strictly increasing
EdgesIncreasing(e) ==
    \A d \in 1..Len(e) : \A i \in 1..(Len(e[d]) - 1) : e[d][i] < e[d][i + 1]

\* np.digitize(v, edges): the number of edges <= v
Digitize(v, ed) == Cardinality({i \in 1..Len(ed) : ed[i] <= v})

\* variants of the bin count: one that leaves a value on the last edge in the
\* upper outlier slot, one that moves every outlier into the nearest bin
NCountOpenTop(v, ed) == Digitize(v, ed)

NCountClamped(v, ed) ==
    IF Digitize(v, ed) = 0 THEN 1
    ELSE IF Digitize(v, ed) >= Len(ed) THEN Len(ed) - 1
    ELSE Digitize(v, ed)

\* np.histogramdd's bin count of one value: a value equal to the last edge
\* is moved into the last bin; 0 and Len(ed) are the two outlier slots
NCount(v, ed) ==
    IF v = ed[Len(ed)] THEN Digitize(v, ed) - 1 ELSE Digitize(v, ed)

IsOutlier(v, ed) == NCount(v, ed) = 0 \/ NCount(v, ed) = Len(ed)

\* 0-based bin of a value that is no outlier
LearnBin(v, ed) == NCount(v, ed) - 1

\* row r of the table as seen by histogramdd(features.T, ...)
RowOf(features, r) == [c \in 1..NCols(features) |-> features[c][r]]

RowDropped(row, e) == \E d \in 1..Len(e) : IsOutlier(row[d], e[d])

RowCell(row, e) == [d \in 1..Len(e) |-> LearnBin(row[d], e[d])]

\* weights=None counts every row once
EffectiveWeights(wopt, nrows) ==
    IF wopt.given THEN wopt.w ELSE [r \in 1..nrows |-> 1]

\* the weighted count of rows 1..r: every row that is no outlier adds its
\* weight to its cell
RECURSIVE Bincount(_, _, _, _)
Bincount(features, e, w, r) ==
    IF r = 0 THEN Zeros(Shape(e))
    ELSE LET row == RowOf(features, r)
         IN  IF RowDropped(row, e)
             THEN Bincount(features, e, w, r - 1)
             ELSE [Bincount(features, e, w, r - 1)
                      EXCEPT ![RowCell(row, e)] = @ + w[r]]

\* line 31: h, _ = np.histogramdd(features.T, bins=self.edges, weights=weights)
Histogramdd(features, e, wopt) ==
    Bincount(features, e, EffectiveWeights(wopt, NRows(features)),
             NRows(features))

\* variant of line 32 that assigns instead of adding
AccumulateReplace(h, delta) == delta

\* line 32: self.histogram += h
Accumulate(h, delta) == [cell \in DOMAIN h |-> h[cell] + delta[cell]]

LearnH(h, features, e, wopt) == Accumulate(h, Histogramdd(features, e, wopt))

LearnCall(features, wopt, outcome) ==
    [op |-> "learn", features |-> features, wopt |-> wopt,
     pre |-> histogram, outcome |-> outcome]

\* what a caller may hand in where a table of `expected` columns is due:
\* any such table over Values, and tables with one column too few or too
\* many (lines 27 and 36 read only their number of columns, so these hold
\* one value)
ColumnCounts(expected) == {expected - 1, expected, expected + 1}
RowCounts(expected, nc) ==
    0..(IF nc = expected THEN MaxRows ELSE MaxBadRows)
TablesGiven(expected, nc, nr) ==
    IF nc = expected THEN Tables(nc, nr) ELSE [1..nc -> [1..nr -> {0}]]

Learn ==
    /\ pc = "idle"
    /\ EdgesIncreasing(edges)
    /\ \E nc \in ColumnCounts(Len(edges)) :
       \E nr \in RowCounts(Len(edges), nc) :
       \E features \in TablesGiven(Len(edges), nc, nr) :
       \E wopt \in WeightOpts(nr) :
        /\ LearnShapeOk(features, edges)
        /\ rowsLearned + NRows(features) <= MaxTotalRows
        /\ histogram' = LearnH(histogram, features, edges, wopt)
        /\ rowsLearned' = rowsLearned + NRows(features)
        /\ call' = LearnCall(features, wopt, "ok")
    /\ pc' = "returned"
    /\ UNCHANGED edges

\* line 27 fails: nothing after it runs
LearnAssertFails ==
    /\ pc = "idle"
    /\ \E nc \in ColumnCounts(Len(edges)) :
       \E nr \in RowCounts(Len(edges), nc) :
       \E features \in TablesGiven(Len(edges), nc, nr) :
       \E wopt \in WeightOpts(nr) :
        /\ ~LearnShapeOk(features, edges)
        /\ call' = LearnCall(features, wopt, "AssertionError")
    /\ pc' = "returned"
    /\ UNCHANGED <<edges, histogram, rowsLearned>>

\* line 31 raises: line 32 does not run
LearnValueError ==
    /\ pc = "idle"
    /\ ~EdgesIncreasing(edges)
    /\ \E nc \in ColumnCounts(Len(edges)) :
       \E nr \in RowCounts(Len(edges), nc) :
       \E features \in TablesGiven(Len(edges), nc, nr) :
       \E wopt \in WeightOpts(nr) :
        /\ LearnShapeOk(features, edges)
        /\ call' = LearnCall(features, wopt, "ValueError")
    /\ pc' = "returned"
    /\ UNCHANGED <<edges, histogram, rowsLearned>>

---------------------------------------------------------------------------
(* Resampler.sample                                                        *)

\* line 36
SampleShapeOk(features, e) == NCols(features) = Len(e) - 1

Sorted(a) == \A i \in 1..(Len(a) - 1) : a[i] <= a[i + 1]

\* np.searchsorted(a, key), side='left': for a sorted a the number of its
\* elements below key.  For an unsorted a numpy leaves the result open; a
\* binary search over a list that starts with -inf and ends with +inf ends
\* between the two
SearchSorted(a, key) ==
    IF Sorted(a) THEN {Cardinality({i \in 1..Len(a) : a[i] < key})}
    ELSE 1..(Len(a) - 1)

\* line 38: np.searchsorted(edges, vals) - 1
SampleBin(v, ed) == {i - 1 : i \in SearchSorted(ed, v)}

\* line 38: the index tables idx[d][r] the line can produce, one index per
\* independent column (zip stops at the shorter list) and row
Idx(features, e) ==
    LET cols == 1..NCols(features)
        rows == 1..NRows(features)
        all  == UNION {SampleBin(features[d][r], e[d]) : d \in cols, r \in rows}
    IN  {idx \in [cols -> [rows -> all]] :
            \A d \in cols : \A r \in rows :
                idx[d][r] \in SampleBin(features[d][r], e[d])}

\* number of bins of the dependent (last) dimension
DepBins(e) == Len(e[Len(e)]) - 1

\* line 39: row r of self.histogram[idx], a copy, indexed by dependent bin
Slice(h, idx, e, r) ==
    [b \in 0..(DepBins(e) - 1) |->
        h[[d \in 1..Len(e) |-> IF d < Len(e) THEN idx[d][r] ELSE b]]]

\* variant of line 41 that keeps negative cells
ClipNone(x) == x

\* line 41: tmp[tmp < 0] = 0
Clip(x) == IF x < 0 THEN 0 ELSE x

Tmp(h, idx, e, r) ==
    [b \in 0..(DepBins(e) - 1) |-> Clip(Slice(h, idx, e, r)[b])]

RECURSIVE SumBins(_, _)
SumBins(t, b) == IF b < 0 THEN 0 ELSE t[b] + SumBins(t, b - 1)

\* line 42: norm = np.sum(tmp, axis=1)
Norm(t) == SumBins(t, Cardinality(DOMAIN t) - 1)

\* line 43: probs = tmp / norm, kept as the fraction num[b] / den
\* (0 / 0 is the NaN vector)
Probs(t) == [num |-> t, den |-> Norm(t)]

\* line 46: the bins choice(n, p=p) can return for a proper p: those of
\* positive probability.  For the NaN vector choice either raises
\* ValueError("probabilities contain NaN") or, where it does not validate
\* NaN, returns 0 (every cdf comparison fails): see SampleChoiceRaises
ChoiceBins(p) ==
    IF p.den = 0 THEN {0} ELSE {b \in DOMAIN p.num : p.num[b] > 0}

\* variant of the draw that includes the upper edge
UniformClosed(low, high) == low..high

\* lines 48-50: np.random.uniform(low, high) draws from [low, high)
Uniform(low, high) == low..(high - 1)

\* line 52: sampled_val[norm == 0] = np.nan
NanWhereEmpty(p, v) == IF p.den = 0 THEN NaN ELSE v

\* variant in which line 39 yields a view, so that line 41 writes through
\* into the histogram
HistogramAfterSampleInPlace(h, idx, e, nrows) ==
    [c \in DOMAIN h |->
        IF \E r \in 1..nrows : \A d \in 1..(Len(e) - 1) : c[d] = idx[d][r]
        THEN IF h[c] < 0 THEN 0 ELSE h[c]
        ELSE h[c]]

\* the histogram sample leaves behind: line 39 copies, so line 41 writes
\* into the copy only
HistogramAfterSample(h, idx, e, nrows) == h

SampleCall(features, idx, probs, rows, outcome) ==
    [op |-> "sample", features |-> features, idx |-> idx, probs |-> probs,
     rows |-> rows, pre |-> histogram, outcome |-> outcome]

AllProbs(h, idx, e, nrows) ==
    [r \in 1..nrows |-> Probs(Tmp(h, idx, e, r))]

\* what a sample call that passes line 36 can do.  Lines 45-46 draw a bin
\* for rows 1..upto: all rows, or those before the row choice raises at.
\* Lines 48-52, reached when no draw has raised, turn the bins into values
\* (self.edges[-1][b] is dep[b + 1]: sequences here start at 1)
Draws(features, idx, upto, outcome) ==
    LET probs == AllProbs(histogram, idx, edges, NRows(features))
        dep   == edges[Len(edges)]
    IN  \E bins \in [1..upto -> 0..(DepBins(edges) - 1)] :
            /\ \A r \in 1..upto : bins[r] \in ChoiceBins(probs[r])
            /\ IF outcome = "ok"
               THEN \E vals \in [1..upto -> UNION {Uniform(dep[b + 1], dep[b + 2]) :
                                                     b \in 0..(DepBins(edges) - 1)}] :
                       /\ \A r \in 1..upto :
                             vals[r] \in Uniform(dep[bins[r] + 1], dep[bins[r] + 2])
                       /\ call' = SampleCall(features, idx, probs,
                                      [r \in 1..upto |->
                                          [bin |-> bins[r],
                                           val |-> NanWhereEmpty(probs[r], vals[r])]],
                                      outcome)
               ELSE call' = SampleCall(features, idx, probs,
                                [r \in 1..upto |-> [bin |-> bins[r]]], outcome)

\* choice validates p and raises ValueError at the first row whose p is the
\* NaN vector: nothing is returned
SampleChoiceRaises ==
    /\ pc = "idle"
    /\ \E nc \in ColumnCounts(Len(edges) - 1) :
       \E nr \in RowCounts(Len(edges) - 1, nc) :
       \E features \in TablesGiven(Len(edges) - 1, nc, nr) :
        /\ SampleShapeOk(features, edges)
        /\ \E idx \in Idx(features, edges) :
            /\ \E k \in 1..nr :
                /\ \A r \in 1..k :
                      (Norm(Tmp(histogram, idx, edges, r)) = 0) <=> (r = k)
                /\ Draws(features, idx, k - 1, "ValueError")
            /\ histogram' = HistogramAfterSample(histogram, idx, edges, nr)
    /\ pc' = "returned"
    /\ UNCHANGED <<edges, rowsLearned>>

\* every row's draw returns a bin and the values are returned
Sample ==
    /\ pc = "idle"
    /\ \E nc \in ColumnCounts(Len(edges) - 1) :
       \E nr \in RowCounts(Len(edges) - 1, nc) :
       \E features \in TablesGiven(Len(edges) - 1, nc, nr) :
        /\ SampleShapeOk(features, edges)
        /\ \E idx \in Idx(features, edges) :
            /\ Draws(features, idx, nr, "ok")
            /\ histogram' = HistogramAfterSample(histogram, idx, edges, nr)
    /\ pc' = "returned"
    /\ UNCHANGED <<edges, rowsLearned>>

\* a table of no rows: sampled_bin is np.array([]), an array of floats, and
\* numpy (from 1.12 on) refuses it as an index in line 48; older numpy takes
\* it, see Sample
SampleIndexError ==
    /\ pc = "idle"
    /\ \E nc \in ColumnCounts(Len(edges) - 1) :
       \E features \in TablesGiven(Len(edges) - 1, nc, 0) :
        /\ SampleShapeOk(features, edges)
        /\ \E idx \in Idx(features, edges) :
            /\ call' = SampleCall(features, idx, << >>, << >>, "IndexError")
            /\ histogram' = HistogramAfterSample(histogram, idx, edges, 0)
    /\ pc' = "returned"
    /\ UNCHANGED <<edges, rowsLearned>>

\* line 36 fails: nothing after it runs
SampleAssertFails ==
    /\ pc = "idle"
    /\ \E nc \in ColumnCounts(Len(edges) - 1) :
       \E nr \in RowCounts(Len(edges) - 1, nc) :
       \E features \in TablesGiven(Len(edges) - 1, nc, nr) :
        /\ ~SampleShapeOk(features, edges)
        /\ call' = SampleCall(features, << >>, << >>, << >>, "AssertionError")
    /\ pc' = "returned"
    /\ UNCHANGED <<edges, histogram, rowsLearned>>

---------------------------------------------------------------------------
\* the caller takes the result (or the exception) and goes on
Return ==
    /\ pc = "returned"
    /\ pc' = "idle"
    /\ call' = [op |-> "none"]
    /\ UNCHANGED <<edges, histogram, rowsLearned>>

Init ==
    /\ pc = "new"
    /\ edges = << >>
    /\ histogram = << >>
    /\ call = [op |-> "none"]
    /\ rowsLearned = 0

Next ==
    \/ \E args \in EdgeArgs : Construct(args)
    \/ \E args \in EdgeArgs : ConstructFails(args)
    \/ Learn
    \/ LearnAssertFails
    \/ LearnValueError
    \/ SampleChoiceRaises
    \/ Sample
    \/ SampleIndexError
    \/ SampleAssertFails
    \/ Return

Spec == Init /\ [][Next]_vars

---------------------------------------------------------------------------
(* Properties.  A call that has just ended is described by the record      *)
(* call; call.pre is the histogram the call started from.                  *)

LearnReturned == pc = "returned" /\ call.op = "learn" /\ call.outcome = "ok"
SampleEnded == pc = "returned" /\ call.op = "sample"
SampleReturned == SampleEnded /\ call.outcome = "ok"

CallRows == 1..NRows(call.features)
CallWeights == EffectiveWeights(call.wopt, NRows(call.features))
DepEdges == edges[Len(edges)]

\* the dependent value of row r lies in the dependent edge range
DepInRange(r) ==
    LET v == call.features[Len(edges)][r]
    IN  DepEdges[1] <= v /\ v <= DepEdges[Len(DepEdges)]

\* the bin i with ed[i] <= v < ed[i+1] (0-based) of an edge list
HalfOpenBin(v, ed) ==
    CHOOSE i \in 0..(Len(ed) - 2) : ed[i + 1] <= v /\ v < ed[i + 2]

RECURSIVE SumOver(_, _)
SumOver(w, R) ==
    IF R = {} THEN 0
    ELSE LET r == CHOOSE x \in R : TRUE IN w[r] + SumOver(w, R \ {r})

\* C1: after a learn whose rows all have their dependent value inside the
\* dependent edge range, the histogram's total is the total before the call
\* plus the sum of the batch's weights (unit weights when none are given).
C1_MassConservation ==
    (LearnReturned /\ \A r \in CallRows : DepInRange(r))
        => HistSum(histogram) = HistSum(call.pre) + SumSeq(CallWeights)

C1_Witness ==
    /\ LearnReturned
    /\ NRows(call.features) = 2
    /\ \A r \in CallRows : DepInRange(r)
    /\ call.features[1][1] < edges[1][2]
    /\ call.features[2][2] = DepEdges[Len(DepEdges)]
    /\ HistSum(histogram) # HistSum(call.pre)

\* rows lo..hi of the batch of the call, as a batch of its own
SubFeatures(lo, hi) ==
    [c \in 1..NCols(call.features) |->
        [r \in 1..(hi - lo + 1) |-> call.features[c][lo + r - 1]]]
SubWeights(lo, hi) ==
    IF call.wopt.given
    THEN [given |-> TRUE, w |-> [r \in 1..(hi - lo + 1) |-> call.wopt.w[lo + r - 1]]]
    ELSE call.wopt

\* C2: for every way to cut the learned batch into a batch A followed by a
\* batch B: learning A then B, learning B then A, and learning A and B on
\* two zero-initialised histograms that are then added to the starting one,
\* all give, cell by cell, the histogram the one learn call of the whole
\* batch has produced.
C2_OrderIndependence ==
    LearnReturned =>
        \A k \in 0..NRows(call.features) :
            LET n  == NRows(call.features)
                fA == SubFeatures(1, k)
                wA == SubWeights(1, k)
                fB == SubFeatures(k + 1, n)
                wB == SubWeights(k + 1, n)
                zero == Zeros(Shape(edges))
                ab == LearnH(LearnH(call.pre, fA, edges, wA), fB, edges, wB)
                ba == LearnH(LearnH(call.pre, fB, edges, wB), fA, edges, wA)
                merged == Accumulate(call.pre,
                              Accumulate(LearnH(zero, fA, edges, wA),
                                         LearnH(zero, fB, edges, wB)))
            IN  ab = histogram /\ ba = histogram /\ merged = histogram

C2_Witness ==
    /\ LearnReturned
    /\ NRows(call.features) = 2
    /\ histogram # call.pre
    /\ LearnH(call.pre, SubFeatures(1, 1), edges, SubWeights(1, 1)) # call.pre
    /\ LearnH(call.pre, SubFeatures(2, 2), edges, SubWeights(2, 2)) # call.pre
    /\ LearnH(call.pre, SubFeatures(1, 1), edges, SubWeights(1, 1))
         # LearnH(call.pre, SubFeatures(2, 2), edges, SubWeights(2, 2))

\* the rows of the call whose dependent value is in range and whose
\* independent values fall, by the rule edges[i] <= v < edges[i+1] over the
\* padded edges, into the independent bins of cell c0
RowsInto(c0) ==
    {r \in CallRows :
        /\ DepInRange(r)
        /\ \A d \in 1..(Len(edges) - 1) :
              HalfOpenBin(call.features[d][r], edges[d]) = c0[d]}

\* the cells that share their independent bins with cell c0
SliceCells(c0) ==
    {c \in DOMAIN histogram : \A d \in 1..(Len(edges) - 1) : c[d] = c0[d]}

\* C3: after learn, the mass added to the dependent slice of any
\* independent bins is the weight of exactly the rows that have an in-range
\* dependent value and whose independent values belong to those bins, a
\* value below the first user edge belonging to bin 0 and one above the
\* last user edge to the last bin; a row with an out-of-range dependent
\* value adds nothing anywhere.
C3_OverflowCapture ==
    LearnReturned =>
        /\ \A c0 \in DOMAIN histogram :
              SumCells(histogram, SliceCells(c0))
                  = SumCells(call.pre, SliceCells(c0))
                    + SumOver(CallWeights, RowsInto(c0))
        /\ (\A r \in CallRows : ~DepInRange(r)) => histogram = call.pre

C3_Witness ==
    /\ LearnReturned
    /\ NRows(call.features) = 2
    /\ call.features[1][1] < edges[1][2]
    /\ call.features[1][2] > edges[1][Len(edges[1]) - 1]
    /\ \A r \in CallRows : DepInRange(r)
    /\ \E c \in DOMAIN histogram : c[1] = 0 /\ histogram[c] # call.pre[c]
    /\ \E c \in DOMAIN histogram :
          c[1] = Len(edges[1]) - 2 /\ histogram[c] # call.pre[c]

C3_WitnessDropped ==
    /\ LearnReturned
    /\ NRows(call.features) = 2
    /\ \A r \in CallRows : ~DepInRange(r)

\* the cell of dependent bin b in the slice sample has resolved for row r
SampledCell(r, b) ==
    [d \in 1..Len(edges) |-> IF d < Len(edges) THEN call.idx[d][r] ELSE b]

\* the mass of that slice once its negative cells count as zero
ClippedMass(r) ==
    SumCells(call.pre,
             {c \in DOMAIN call.pre :
                 /\ \A d \in 1..(Len(edges) - 1) : c[d] = call.idx[d][r]
                 /\ call.pre[c] > 0})

\* the rows of the sample call for which choice has returned a bin
DrawnRows == DOMAIN call.rows

\* the Resampler was built from edge lists of at least 2 strictly
\* increasing values each
WellFormed ==
    /\ EdgesIncreasing(edges)
    /\ \A d \in 1..Len(edges) :
          Len(edges[d]) >= (IF d < Len(edges) THEN 4 ELSE 2)

\* C4: a sample call on a batch holding a row whose slice has no mass after
\* clipping returns; every such row has NaN as its value and has had no bin
\* drawn, and every other row has a value that is not NaN.
C4_NoCoverageNaN ==
    (SampleEnded /\ WellFormed /\ SampleShapeOk(call.features, edges)
        /\ \E r \in CallRows : ClippedMass(r) = 0) =>
        /\ call.outcome = "ok"
        /\ \A r \in CallRows :
            /\ ClippedMass(r) = 0
                  => (r \notin DrawnRows \/ call.rows[r].val = NaN)
            /\ ClippedMass(r) = 0 => r \notin DrawnRows
            /\ ClippedMass(r) > 0
                  => (r \in DrawnRows /\ call.rows[r].val # NaN)

\* C5: in a sample call, a row whose slice has positive clipped mass has a
\* drawn bin whose cell is positive, and the probability vector handed to
\* choice gives a bin with a positive cell its cell divided by the sum of
\* the positive cells of the slice, and any other bin zero.
C5_NegativeClipping ==
    (SampleEnded /\ SampleShapeOk(call.features, edges)) =>
        \A r \in CallRows :
            ClippedMass(r) > 0 =>
                /\ r \in DrawnRows => call.pre[SampledCell(r, call.rows[r].bin)] > 0
                /\ call.probs[r].den = ClippedMass(r)
                /\ \A b \in 0..(DepBins(edges) - 1) :
                      LET cell == call.pre[SampledCell(r, b)]
                      IN  call.probs[r].num[b] = IF cell > 0 THEN cell ELSE 0

C5_Witness ==
    /\ SampleReturned
    /\ \E r \in CallRows :
          /\ ClippedMass(r) > 0
          /\ \E b \in 0..(DepBins(edges) - 1) : call.pre[SampledCell(r, b)] < 0
          /\ call.pre[SampledCell(r, call.rows[r].bin)] > 0

\* C6: every value a sample call returns that is not NaN lies in
\* [dependent_edges[b], dependent_edges[b+1]) for the bin b drawn for its
\* row, b a valid dependent bin; so it is neither below the first nor at or
\* above the last dependent edge.
C6_RangeContainment ==
    SampleReturned =>
        \A r \in CallRows :
            call.rows[r].val # NaN =>
                LET b == call.rows[r].bin
                    v == call.rows[r].val
                IN  /\ 0 <= b /\ b < DepBins(edges)
                    /\ DepEdges[b + 1] <= v /\ v < DepEdges[b + 2]
                    /\ DepEdges[1] <= v /\ v < DepEdges[Len(DepEdges)]

C6_Witness ==
    /\ SampleReturned
    /\ NRows(call.features) = 2
    /\ call.rows[1].val # NaN
    /\ call.rows[1].val > DepEdges[call.rows[1].bin + 1]
    /\ call.rows[2].val # NaN
    /\ call.rows[2].bin # call.rows[1].bin

\* C7: a sample call, however it ends, leaves the histogram and the edges
\* as they were.
C7_SampleFrame ==
    [][call'.op = "sample" => (histogram' = histogram /\ edges' = edges)]_vars

C7_Witness ==
    /\ SampleReturned
    /\ \E r \in CallRows : \E b \in 0..(DepBins(edges) - 1) :
          histogram[SampledCell(r, b)] < 0

\* C8: a learn call given a table whose column count is not the number of
\* dimensions, and a sample call given one whose column count is not the
\* number of independent dimensions, end in an error and leave the
\* histogram as it was.
C8_ShapeMismatch ==
    /\ (pc = "returned" /\ call.op = "learn"
            /\ NCols(call.features) # Len(edges))
          => (call.outcome # "ok" /\ histogram = call.pre)
    /\ (pc = "returned" /\ call.op = "sample"
            /\ NCols(call.features) # Len(edges) - 1)
          => (call.outcome # "ok" /\ histogram = call.pre)

C8_Witness ==
    /\ pc = "returned"
    /\ call.op = "learn"
    /\ NCols(call.features) = Len(edges) + 1
    /\ NRows(call.features) = 1
    /\ call.outcome = "AssertionError"
    /\ histogram # Zeros(Shape(edges))

\* an edge list with fewer than 2 values or not strictly increasing
Malformed(ed) ==
    Len(ed) < 2 \/ \E i \in 1..(Len(ed) - 1) : ed[i] >= ed[i + 1]

\* C9: constructing a Resampler from edge lists one of which is malformed
\* fails and yields no Resampler.
C9_ConstructionRejects ==
    (call.op = "init" /\ \E d \in 1..Len(call.args) : Malformed(call.args[d]))
        => (call.outcome # "ok" /\ pc = "failed")

\* C10: the bin sample resolves for a value of an independent dimension is
\* the bin learn puts a row with that value into, which is the bin i with
\* edges[i] <= v < edges[i+1].
C10_SameBins ==
    (SampleReturned /\ WellFormed) =>
        \A d \in 1..(Len(edges) - 1) : \A r \in CallRows :
            /\ call.idx[d][r] = LearnBin(call.features[d][r], edges[d])
            /\ call.idx[d][r] = HalfOpenBin(call.features[d][r], edges[d])

====
